---- MODULE Spec2Model ----
(***************************************************************************)
(* A model of load_icgem_gdf (src/data/icgem.py): the header loop that     *)
(* reads an ICGEM .gdf file line by line, the loading of the numeric body, *)
(* the packaging of the columns into the data dictionary and the sanity    *)
(* checks that follow.                                                     *)
(*                                                                         *)
(* Text is modelled word by word: a line is a sequence of words in which   *)
(* a run of blanks is the word " " and the line terminator is the word     *)
(* "\n".  A file is a sequence of lines.  Floats are modelled by integers. *)
(* An optional value (None in the code) is the empty tuple, a set value v  *)
(* is the one-element tuple <<v>>.  A numpy array is a record of its shape *)
(* (shp) and its flat, row-major buffer (flat).                            *)
(*                                                                         *)
(* Attribute names are drawn from a vocabulary of distinct words, none of  *)
(* which is a key the code itself puts in the dictionary (shape, area,     *)
(* metadata, h_over_ellipsoid).                                            *)
(***************************************************************************)
EXTENDS Integers, Sequences, FiniteSets, TLC

VARIABLES
    input,       \* the whole file behind fname, as it is on disk (never changes)
    gdf_file,    \* the lines the file iterator has not yet handed out
    metadata,    \* list of header lines appended so far
    shape,       \* [lat, lon], each None or an int
    size,        \* None or an int
    height,      \* None or a float
    attributes,  \* None or the list of attribute names
    attr_line,   \* TRUE when the next line is taken as the attribute line
    area,        \* [s, n, w, e], each None or a float
    rawdata,     \* None or the rows of the unpacked body matrix
    data,        \* None or the dictionary under construction
    pc,          \* "header", "body", "package", "checks", "done"
    error        \* None or the exception that ended the call

vars == <<input, gdf_file, metadata, shape, size, height, attributes,
          attr_line, area, rawdata, data, pc, error>>

parser == <<shape, size, height, attributes, attr_line, area>>

\* Largest number of parallels along one axis of a grid.
MaxDim == 2
\* Largest number of lines of a free-form file.
MaxLines == 4

None == <<>>
Some(v) == <<v>>

Raised(exc, line) == Some([exc |-> exc, line |-> line])

Min(a, b) == IF a < b THEN a ELSE b

-----------------------------------------------------------------------------
(* Text primitives *)

Whitespace == {" ", "\n"}

RECURSIVE lstrip(_)
lstrip(s) ==
    IF s # <<>> /\ Head(s) \in Whitespace THEN lstrip(Tail(s)) ELSE s

RECURSIVE rstrip(_)
rstrip(s) ==
    IF s # <<>> /\ s[Len(s)] \in Whitespace
    THEN rstrip(SubSeq(s, 1, Len(s) - 1))
    ELSE s

\* str.strip(): leading and trailing whitespace removed
strip(s) == rstrip(lstrip(s))

\* str.split(): the words between runs of whitespace
split(s) == SelectSeq(s, LAMBDA w : w \notin Whitespace)

\* ''.join(lines)
RECURSIVE join(_)
join(lines) == IF lines = <<>> THEN <<>> ELSE Head(lines) \o join(Tail(lines))

Digits == <<"0", "1", "2", "3", "4", "5", "6", "7", "8", "9">>

Word(n) == Digits[n + 1]

\* words int() accepts, and its value
IntWords == {Digits[i] : i \in 1..Len(Digits)}
int(w) == CHOOSE n \in 0..(Len(Digits) - 1) : Digits[n + 1] = w

\* words float() accepts, and its value
FloatWords == IntWords \cup {"2.0"}
float(w) == IF w = "2.0" THEN 2 ELSE int(w)

\* the words whose first 11 characters are 'end_of_head'
EndOfHeadWords == {"end_of_head", "end_of_head==="}

\* line.strip()[:11] == 'end_of_head'
IsEndOfHead(line) ==
    strip(line) # <<>> /\ Head(strip(line)) \in EndOfHeadWords

\* not line.strip()
IsBlank(line) == strip(line) = <<>>

-----------------------------------------------------------------------------
(* Array primitives *)

Array(shp, flat) == [shp |-> shp, flat |-> flat]

\* value.reshape(shape)[::-1] for a two-dimensional shape: rows reversed
FlipRows(a) ==
    LET R == a.shp[1]
        C == a.shp[2]
    IN  Array(a.shp,
              [k \in 1..(R * C) |->
                  a.flat[(R - 1 - ((k - 1) \div C)) * C + ((k - 1) % C) + 1]])

\* a plausible slip: the whole buffer reversed, not only the rows
FlipAll(a) ==
    Array(a.shp, [k \in 1..Len(a.flat) |-> a.flat[Len(a.flat) + 1 - k]])

\* a plausible slip of the line below
InvertLatitudeAll(value, shp) ==
    Array(<<Len(value.flat)>>, FlipAll(Array(shp, value.flat)).flat)

\* value.reshape(shape)[::-1].ravel()
InvertLatitude(value, shp) ==
    Array(<<Len(value.flat)>>, FlipRows(Array(shp, value.flat)).flat)

\* a plausible slip: zeros instead of ones
HeightColumnZeros(h, n) == Array(<<n>>, [k \in 1..n |-> 0])

\* height*np.ones(size)
HeightColumn(h, n) == Array(<<n>>, [k \in 1..n |-> h])

-----------------------------------------------------------------------------
(* The files the call is given *)

KeyLine(key, n) == <<key, " ", Word(n), "\n">>

Opt(S) == {None} \cup {Some(v) : v \in S}

Dims == 1..MaxDim

\* the body of a grid of bl x bn points in ICGEM order: latitude from north
\* to south, longitude from west to east, one line per point
BodyLine(bl, bn, ncols, i) ==
    LET lat == (bl - 1) - ((i - 1) \div bn)
        lon == (i - 1) % bn
        row == <<Word(lat), " ", Word(lon), " ", Word(i), "\n">>
    IN  IF ncols = 3 THEN row ELSE <<Word(lat), " ", Word(lon), "\n">>

Body(bl, bn, ncols) == [i \in 1..(bl * bn) |-> BodyLine(bl, bn, ncols, i)]

\* "  latitude   longitude   gravity_ell\n"
NamesLine(n) ==
    IF n = 2 THEN <<" ", "latitude", " ", "longitude", "\n">>
    ELSE <<" ", "latitude", " ", "longitude", " ", "gravity_ell", "\n">>

OptLine(key, v) == IF v = None THEN <<>> ELSE <<KeyLine(key, v[1])>>

\* A .gdf file laid out as ICGEM writes it.  h, hl, hn, sz and the four
\* limits are optional header values; names is None or the number of names
\* on the attribute line; the body holds bl x bn points in ncols columns.
GridFile(h, hl, hn, sz, lim, names, bl, bn, ncols) ==
    <<KeyLine("max_used_degree", 2)>>
    \o OptLine("height_over_ell", h)
    \o OptLine("latlimit_north", lim[2])
    \o OptLine("latlimit_south", lim[1])
    \o OptLine("longlimit_west", lim[3])
    \o OptLine("longlimit_east", lim[4])
    \o OptLine("latitude_parallels", hl)
    \o OptLine("longitude_parallels", hn)
    \o OptLine("number_of_gridpoints", sz)
    \o (IF names = None THEN <<>> ELSE <<<<"\n">>, NamesLine(names[1])>>)
    \o <<<<"end_of_head", " ", "======", "\n">>>>
    \o Body(bl, bn, ncols)

Heights == {7}

\* the limits the body's latitude and longitude columns span
TrueArea(bl, bn) == <<Some(0), Some(bl - 1), Some(0), Some(bn - 1)>>

\* files whose header and body agree in everything the call checks
WellFormedFiles ==
    {GridFile(h, Some(bl), Some(bn), Some(bl * bn), TrueArea(bl, bn),
              Some(3), bl, bn, 3) :
        h \in Opt(Heights), bl \in Dims, bn \in Dims}

\* files with any combination of missing or disagreeing shape, size,
\* attribute line and body, with the limits the body spans
ShapeFiles ==
    {GridFile(h, hl, hn, sz, TrueArea(bl, bn), names, bl, bn, ncols) :
        h \in Opt(Heights), hl \in Opt(Dims), hn \in Opt(Dims),
        sz \in Opt(1..(MaxDim * MaxDim)), names \in Opt({2, 3}),
        bl \in Dims, bn \in Dims, ncols \in {2, 3}}

\* one limit of the true area replaced by v
WithLimit(bl, bn, k, v) == [TrueArea(bl, bn) EXCEPT ![k] = v]

\* well-formed files with one limit left out of the header
MissingLimitFiles ==
    {GridFile(h, Some(bl), Some(bn), Some(bl * bn), WithLimit(bl, bn, k, None),
              Some(3), bl, bn, 3) :
        h \in Opt(Heights), bl \in Dims, bn \in Dims, k \in 1..4}

\* well-formed files with one limit of the header off by 1.0
OffByOneFiles ==
    {GridFile(h, Some(bl), Some(bn), Some(bl * bn),
              WithLimit(bl, bn, k, Some(TrueArea(bl, bn)[k][1] + 1)),
              Some(3), bl, bn, 3) :
        h \in Opt(Heights), bl \in Dims, bn \in Dims, k \in 1..4}

\* lines of a free-form header
ScanLines ==
    { <<"\n">>,
      <<" ", "\n">>,
      <<"latitude", " ", "longitude", "\n">>,
      <<" ", "longitude_parallels", " ", "2", "\n">>,
      <<"number_of_gridpoints", " ", "2.0", "\n">>,
      <<"latlimit_south", "\n">>,
      <<"end_of_head===", "\n">>,
      <<"1", " ", "2", "\n">> }

RECURSIVE SeqsUpTo(_, _)
SeqsUpTo(S, n) ==
    IF n = 0 THEN {<<>>}
    ELSE LET shorter == SeqsUpTo(S, n - 1)
         IN  shorter \cup {Append(s, x) : s \in shorter, x \in S}

\* any sequence of at most MaxLines such lines
ScanFiles == SeqsUpTo(ScanLines, MaxLines)

Files ==
    WellFormedFiles \cup ShapeFiles \cup MissingLimitFiles
        \cup OffByOneFiles \cup ScanFiles

-----------------------------------------------------------------------------
(* The header loop *)

Init ==
    /\ input \in Files
    /\ gdf_file = input
    /\ metadata = <<>>
    /\ shape = <<None, None>>
    /\ size = None
    /\ height = None
    /\ attributes = None
    /\ attr_line = FALSE
    /\ area = <<None, None, None, None>>
    /\ rawdata = None
    /\ data = None
    /\ pc = "header"
    /\ error = None

IntKeys == {"latitude_parallels", "longitude_parallels", "number_of_gridpoints"}

FloatKeys ==
    {"height_over_ell", "latlimit_south", "latlimit_north",
     "longlimit_west", "longlimit_east"}

\* the source line of the branch that handles each key
BranchLine(key) ==
    CASE key = "height_over_ell" -> 44
      [] key = "latitude_parallels" -> 46
      [] key = "longitude_parallels" -> 48
      [] key = "number_of_gridpoints" -> 50
      [] key = "latlimit_south" -> 52
      [] key = "latlimit_north" -> 54
      [] key = "longlimit_west" -> 56
      [] key = "longlimit_east" -> 58

\* a plausible slip: the line is stored stripped
AppendStripped(md, line) == Append(md, strip(line))

\* metadata.append(line)
AppendLine(md, line) == Append(md, line)

\* a plausible slip: the mode is left set after the attribute line
ModeKept(mode) == mode

\* attr_line = False, after the attribute line is taken
ModeAfterAttributes(mode) == FALSE

\* the if/elif chain on parts[0]
KeyValue(parts) ==
    LET key == parts[1] IN
    IF key \notin IntKeys \cup FloatKeys
    THEN UNCHANGED <<shape, size, height, area, pc, error>>
    ELSE IF Len(parts) < 2
    THEN /\ pc' = "done"
         /\ error' = Raised("IndexError", BranchLine(key))
         /\ UNCHANGED <<shape, size, height, area>>
    ELSE IF parts[2] \notin (IF key \in IntKeys THEN IntWords ELSE FloatWords)
    THEN /\ pc' = "done"
         /\ error' = Raised("ValueError", BranchLine(key))
         /\ UNCHANGED <<shape, size, height, area>>
    ELSE /\ height' = IF key = "height_over_ell"
                      THEN Some(float(parts[2])) ELSE height
         /\ shape' = IF key = "latitude_parallels"
                     THEN [shape EXCEPT ![1] = Some(int(parts[2]))]
                     ELSE IF key = "longitude_parallels"
                     THEN [shape EXCEPT ![2] = Some(int(parts[2]))]
                     ELSE shape
         /\ size' = IF key = "number_of_gridpoints"
                    THEN Some(int(parts[2])) ELSE size
         /\ area' = IF key = "latlimit_south"
                    THEN [area EXCEPT ![1] = Some(float(parts[2]))]
                    ELSE IF key = "latlimit_north"
                    THEN [area EXCEPT ![2] = Some(float(parts[2]))]
                    ELSE IF key = "longlimit_west"
                    THEN [area EXCEPT ![3] = Some(float(parts[2]))]
                    ELSE IF key = "longlimit_east"
                    THEN [area EXCEPT ![4] = Some(float(parts[2]))]
                    ELSE area
         /\ UNCHANGED <<pc, error>>

\* one iteration of "for line in gdf_file"
ReadLine ==
    /\ pc = "header"
    /\ gdf_file # <<>>
    /\ LET line == Head(gdf_file) IN
       /\ gdf_file' = Tail(gdf_file)
       /\ IF IsEndOfHead(line)
          THEN /\ pc' = "body"
               /\ UNCHANGED <<metadata, parser, error>>
          ELSE /\ metadata' = AppendLine(metadata, line)
               /\ IF IsBlank(line)
                  THEN /\ attr_line' = TRUE
                       /\ UNCHANGED <<shape, size, height, attributes, area,
                                      pc, error>>
                  ELSE IF ~attr_line
                  THEN /\ KeyValue(split(strip(line)))
                       /\ UNCHANGED <<attributes, attr_line>>
                  ELSE /\ attributes' = Some(split(strip(line)))
                       /\ attr_line' = ModeAfterAttributes(attr_line)
                       /\ UNCHANGED <<shape, size, height, area, pc, error>>
    /\ UNCHANGED <<input, rawdata, data>>

\* the loop ends because the file has no more lines
EndOfFile ==
    /\ pc = "header"
    /\ gdf_file = <<>>
    /\ pc' = "body"
    /\ UNCHANGED <<input, gdf_file, metadata, parser, rawdata, data, error>>

-----------------------------------------------------------------------------
(* The body, the dictionary and the sanity checks *)

\* the non-empty rows of the rest of the file, split into words
DataRows(lines) ==
    SelectSeq([i \in 1..Len(lines) |-> split(strip(lines[i]))],
              LAMBDA r : r # <<>>)

\* every word is a number and every row has as many words as the first
Loadable(rows) ==
    \A i \in 1..Len(rows) :
        /\ Len(rows[i]) = Len(rows[1])
        /\ \A j \in 1..Len(rows[i]) : rows[i][j] \in FloatWords

\* the matrix of the rows, transposed (unpack=True): one array per column
Unpack(rows) ==
    [j \in 1..Len(rows[1]) |->
        Array(<<Len(rows)>>, [i \in 1..Len(rows) |-> float(rows[i][j])])]

\* what loadtxt gives for a body without numbers: no row at all or one row
\* of no elements, depending on the numpy at hand
EmptyLoads == {<<>>, <<Array(<<0>>, <<>>)>>}

\* rawdata = np.loadtxt(gdf_file, ndmin=2, unpack=True)
LoadTxt ==
    /\ pc = "body"
    /\ gdf_file' = <<>>
    /\ LET rows == DataRows(gdf_file) IN
       IF rows = <<>>
       THEN /\ \E m \in EmptyLoads : rawdata' = Some(m)
            /\ pc' = "package"
            /\ UNCHANGED error
       ELSE IF ~Loadable(rows)
       THEN /\ pc' = "done"
            /\ error' = Raised("ValueError", 64)
            /\ UNCHANGED rawdata
       ELSE /\ rawdata' = Some(Unpack(rows))
            /\ pc' = "package"
            /\ UNCHANGED error
    /\ UNCHANGED <<input, metadata, parser, data>>

\* the pairs zip(attributes, rawdata) yields
ZipLen(attrs, rows) == Min(Len(attrs), Len(rows))

\* the dictionary entries the loop over zip(attributes, rawdata) leaves: a
\* later pair with the same name replaces an earlier one
Columns(attrs, rows, shp) ==
    LET n == ZipLen(attrs, rows)
        last(a) == CHOOSE i \in 1..n :
                      attrs[i] = a /\ \A j \in (i + 1)..n : attrs[j] # a
    IN  [a \in {attrs[i] : i \in 1..n} |-> InvertLatitude(rows[last(a)], shp)]

\* all(n is not None for n in shape)
ShapeKnown == shape[1] # None /\ shape[2] # None

\* what np.ones(None) gives: a zero-dimensional array or a TypeError,
\* depending on the numpy at hand
OnesOfNone == {"0-d", "TypeError"}

\* data = dict(...), the loop over the columns and the height column
Package ==
    /\ pc = "package"
    /\ LET rows == rawdata[1] IN
       IF attributes = None
       THEN /\ pc' = "done"
            /\ error' = Raised("TypeError", 69)
            /\ UNCHANGED data
       ELSE IF ZipLen(attributes[1], rows) > 0 /\ ~ShapeKnown
       THEN /\ pc' = "done"
            /\ error' = Raised("TypeError", 73)
            /\ UNCHANGED data
       ELSE IF ZipLen(attributes[1], rows) > 0
                 /\ shape[1][1] * shape[2][1] # Len(rows[1].flat)
       THEN /\ pc' = "done"
            /\ error' = Raised("ValueError", 73)
            /\ UNCHANGED data
       ELSE LET shp == IF ZipLen(attributes[1], rows) > 0
                       THEN <<shape[1][1], shape[2][1]>> ELSE <<>>
                cols == Columns(attributes[1], rows, shp)
                dict(c) == Some([shape |-> shape, area |-> area,
                                 metadata |-> join(metadata), cols |-> c])
            IN  IF height = None
                THEN /\ data' = dict(cols)
                     /\ pc' = "checks"
                     /\ UNCHANGED error
                ELSE IF size = None
                THEN \E o \in OnesOfNone :
                        IF o = "TypeError"
                        THEN /\ pc' = "done"
                             /\ error' = Raised("TypeError", 75)
                             /\ UNCHANGED data
                        ELSE /\ data' = dict(("h_over_ellipsoid"
                                              :> Array(<<>>, <<height[1]>>))
                                             @@ cols)
                             /\ pc' = "checks"
                             /\ UNCHANGED error
                ELSE /\ data' = dict(("h_over_ellipsoid"
                                      :> HeightColumn(height[1], size[1]))
                                     @@ cols)
                     /\ pc' = "checks"
                     /\ UNCHANGED error
    /\ UNCHANGED <<input, gdf_file, metadata, parser, rawdata>>

\* a plausible slip: the assertion left out
ShapeSizeUnchecked(shp, sz) == TRUE

\* shape[0]*shape[1] == size
ShapeSizeAgree(shp, sz) == shp[1][1] * shp[2][1] = sz[1]

\* the assertions up to the first reference to usecols, a name that neither
\* the function nor the module nor the builtins define: the lookup raises
\* NameError, and the statements after it are never run
Checks ==
    /\ pc = "checks"
    /\ pc' = "done"
    /\ error' =
         IF ~ShapeKnown
         THEN Raised("AssertionError", 78)
         ELSE IF size = None
         THEN Raised("AssertionError", 79)
         ELSE IF ~ShapeSizeAgree(shape, size)
         THEN Raised("AssertionError", 81)
         ELSE IF attributes = None
         THEN Raised("AssertionError", 83)
         ELSE Raised("NameError", 84)
    /\ UNCHANGED <<input, gdf_file, metadata, parser, rawdata, data>>

Next == ReadLine \/ EndOfFile \/ LoadTxt \/ Package \/ Checks

Spec == Init /\ [][Next]_vars

-----------------------------------------------------------------------------
(* What the claims speak of *)

\* well-formed files with one required header item left out
OmissionFiles ==
    MissingLimitFiles \cup
    {GridFile(h, IF m = 1 THEN None ELSE Some(bl),
              IF m = 2 THEN None ELSE Some(bn),
              IF m = 3 THEN None ELSE Some(bl * bn), TrueArea(bl, bn),
              IF m = 4 THEN None ELSE Some(3), bl, bn, 3) :
        h \in Opt(Heights), bl \in Dims, bn \in Dims, m \in 1..4}

\* the call has ended
Done == pc = "done"

\* the exception that ended the call
Exc == error[1].exc
ExcLine == error[1].line

\* index of the first end_of_head line of f, Len(f) + 1 if it has none
FirstEnd(f) ==
    IF \E i \in 1..Len(f) : IsEndOfHead(f[i])
    THEN CHOOSE i \in 1..Len(f) :
            IsEndOfHead(f[i]) /\ \A j \in 1..(i - 1) : ~IsEndOfHead(f[j])
    ELSE Len(f) + 1

\* the header loop is over without an exception
HeaderOver == pc \in {"body", "package", "checks"} \/ (Done /\ ExcLine >= 64)

\* number of lines before end_of_head the loop has read
LinesRead ==
    IF HeaderOver THEN FirstEnd(input) - 1 ELSE Len(input) - Len(gdf_file)

AreaKnown == \A k \in 1..4 : area[k] # None

\* C1: a well-formed file makes the call return a record, without raising
C1_WellFormedReturns ==
    (Done /\ input \in WellFormedFiles) => error = None

\* C2: no call gets past the assertion on shape and size (lines 81-82), and
\* so none returns a record, unless shape[0]*shape[1] equals the declared
\* number_of_gridpoints; a header where they differ ends the call raised
C2_ShapeTimesShapeIsSize ==
    /\ (Done /\ (error = None \/ ExcLine > 82)) =>
          (ShapeKnown /\ size # None /\ shape[1][1] * shape[2][1] = size[1])
    /\ (Done /\ ShapeKnown /\ size # None
             /\ shape[1][1] * shape[2][1] # size[1]) => error # None

C2_Witness ==
    /\ Done /\ ExcLine > 82
    /\ shape = <<Some(2), Some(2)>> /\ size = Some(4)

\* the assertions that report a missing item, for the items missing now
MissingReports ==
    (IF ShapeKnown THEN {} ELSE {78}) \cup (IF size = None THEN {79} ELSE {})
        \cup (IF attributes = None THEN {83} ELSE {})
        \cup (IF AreaKnown THEN {} ELSE {89})

\* C3: a header that lacks a required item ends the call in the "Couldn't
\* read ..." assertion for a missing item, not in another error
C3_MissingMetadataRaised ==
    (Done /\ input \in OmissionFiles) =>
        (Exc = "AssertionError" /\ ExcLine \in MissingReports)

\* C4: a header whose shape and size disagree ends the call in the
\* shape/size mismatch assertion, however many rows the body holds
C4_ShapeSizeMismatchRaised ==
    (Done /\ input \in ShapeFiles /\ attributes # None /\ ShapeKnown
          /\ size # None /\ shape[1][1] * shape[2][1] # size[1]) =>
        error = Raised("AssertionError", 81)

\* C5: a file with more or fewer attribute names than data columns ends the
\* call in the column-count assertion (line 86) or in loadtxt's ValueError
C5_ColumnCountMismatchRaised ==
    (Done /\ input \in ShapeFiles /\ attributes # None /\ rawdata # None
          /\ ShapeKnown /\ size # None /\ shape[1][1] * shape[2][1] = size[1]
          /\ Len(rawdata[1]) > 0 /\ Len(rawdata[1][1].flat) = size[1]
          /\ Len(attributes[1]) # Len(rawdata[1])) =>
        error \in {Raised("AssertionError", 86), Raised("ValueError", 64)}

\* C6: a header with one limit off by 1.0 from the latitude and longitude
\* columns ends the call in the area mismatch assertion (line 93)
C6_AreaMismatchRaised ==
    (Done /\ input \in OffByOneFiles) => error = Raised("AssertionError", 93)

\* C7: every column stored in the dictionary is its raw column with the
\* rows reversed and the order within a row kept,
\*   column[r*shape[1] + c] = raw[(shape[0]-1-r)*shape[1] + c];
\* for a well-formed file, ordered north to south, the latitude of row r is
\* the r-th from the south
C7_LatitudeInverted ==
    data # None =>
        \A i \in 1..ZipLen(attributes[1], rawdata[1]) :
            LET column == data[1].cols[attributes[1][i]]
                raw == rawdata[1][i].flat
                R == shape[1][1]
                C == shape[2][1]
            IN  /\ column.shp = <<R * C>>
                /\ Len(column.flat) = R * C
                /\ \A r \in 0..(R - 1) : \A c \in 0..(C - 1) :
                      /\ column.flat[r * C + c + 1]
                            = raw[(R - 1 - r) * C + c + 1]
                      /\ (input \in WellFormedFiles
                            /\ attributes[1][i] = "latitude")
                            => column.flat[r * C + c + 1] = r

C7_Witness ==
    /\ data # None
    /\ shape = <<Some(2), Some(2)>>
    /\ "gravity_ell" \in DOMAIN data[1].cols
    /\ rawdata[1][3].flat = <<1, 2, 3, 4>>
    /\ data[1].cols["gravity_ell"].flat = <<3, 4, 1, 2>>
    /\ data[1].cols["latitude"].flat = <<0, 0, 1, 1>>

\* C8: with height_over_ell H and number_of_gridpoints N in the header, the
\* record holds a column h_over_ellipsoid of exactly N elements, each H;
\* without height_over_ell the record holds no such column
C8_HeightColumn ==
    data # None =>
        /\ (height # None /\ size # None) =>
              /\ "h_over_ellipsoid" \in DOMAIN data[1].cols
              /\ data[1].cols["h_over_ellipsoid"].shp = <<size[1]>>
              /\ Len(data[1].cols["h_over_ellipsoid"].flat) = size[1]
              /\ \A k \in 1..size[1] :
                    data[1].cols["h_over_ellipsoid"].flat[k] = height[1]
        /\ height = None => "h_over_ellipsoid" \notin DOMAIN data[1].cols

C8_Witness ==
    /\ Done /\ data # None
    /\ height = Some(7) /\ size = Some(4)
    /\ data[1].cols["h_over_ellipsoid"].flat = <<7, 7, 7, 7>>

\* C9 as stated: the header text is every line up to and including the
\* end_of_head line
C9_EndOfHeadLineAppended ==
    (HeaderOver /\ FirstEnd(input) <= Len(input)) =>
        metadata = SubSeq(input, 1, FirstEnd(input))

\* C9, amended: the header text is, verbatim and in file order, every line
\* read before the end_of_head line (blank, attribute and unrecognized
\* lines alike); the end_of_head line is neither appended nor parsed, and no
\* line after it is appended
C9_HeaderTextVerbatim ==
    /\ metadata = SubSeq(input, 1, LinesRead)
    /\ data # None => data[1].metadata = join(SubSeq(input, 1, LinesRead))
    /\ (HeaderOver /\ FirstEnd(input) <= Len(input)) =>
          attributes # Some(split(strip(input[FirstEnd(input)])))

C9_Witness ==
    /\ HeaderOver
    /\ FirstEnd(input) <= Len(input)
    /\ Len(metadata) >= 3
    /\ \E i \in 1..Len(metadata) : IsBlank(metadata[i])
    /\ \E i \in 1..Len(metadata) : metadata[i] # strip(metadata[i])
                                      /\ ~IsBlank(metadata[i])
    /\ FirstEnd(input) < Len(input)

\* the lines among the first k of f that are taken as attribute lines: the
\* lines that are not blank and directly follow a blank line
AttributeLines(f, k) ==
    {j \in 2..k : ~IsBlank(f[j]) /\ IsBlank(f[j - 1])}

Last(S) == CHOOSE j \in S : \A i \in S : i <= j

\* the lines among the first k of f that set key: not blank, not taken as
\* attribute line, first word key and a value the conversion accepts
KeyLines(f, k, key) ==
    {j \in 1..k :
        /\ ~IsBlank(f[j])
        /\ (j = 1 \/ ~IsBlank(f[j - 1]))
        /\ split(f[j])[1] = key
        /\ Len(split(f[j])) >= 2
        /\ split(f[j])[2] \in
              (IF key \in IntKeys THEN IntWords ELSE FloatWords)}

Declared(f, k, key) ==
    IF KeyLines(f, k, key) = {} THEN None
    ELSE Some(float(split(f[Last(KeyLines(f, k, key))])[2]))

\* C10: after any sequence of header lines, the mode is armed exactly when
\* the last line read is blank; the attribute list is the words of the last
\* line read that is not blank and directly follows a blank line, and is
\* undefined when there is no such line; such a line is not read as a
\* key/value line even if its first word is a recognized key, and a line
\* read while the mode is clear leaves the attribute list alone
C10_AttributeLine ==
    LET k == LinesRead IN
    /\ attr_line = (k >= 1 /\ IsBlank(input[k]))
    /\ attributes =
          IF AttributeLines(input, k) = {} THEN None
          ELSE Some(split(strip(input[Last(AttributeLines(input, k))])))
    /\ shape = <<Declared(input, k, "latitude_parallels"),
                 Declared(input, k, "longitude_parallels")>>
    /\ size = Declared(input, k, "number_of_gridpoints")
    /\ height = Declared(input, k, "height_over_ell")
    /\ area = <<Declared(input, k, "latlimit_south"),
                Declared(input, k, "latlimit_north"),
                Declared(input, k, "longlimit_west"),
                Declared(input, k, "longlimit_east")>>

\* a blank line, an attribute line that starts with a recognized key, a
\* second blank line and a second attribute line have been read
C10_Witness ==
    /\ pc = "header"
    /\ LinesRead = 4
    /\ IsBlank(input[1])
    /\ ~IsBlank(input[2])
    /\ split(input[2])[1] = "longitude_parallels"
    /\ IsBlank(input[3])
    /\ attributes = Some(<<"latitude", "longitude">>)
    /\ shape[2] = None
    /\ ~attr_line

====
